---- MODULE Spec2Model ----
(***************************************************************************)
(* Model of locomoset's metric experiment pipeline:                        *)
(*   src/src/locomoset/metrics/experiment.py  (ModelMetricsExperiment,     *)
(*                                             run_config)                 *)
(*   src/src/locomoset/config/config_classes.py  (Config.init_wandb,       *)
(*                                             create_wandb_names,         *)
(*                                             TopLevelConfig.             *)
(*                                             _gen_sweep_dicts)           *)
(*   src/tests/test_parc.py  (_lower_tri_arr, _feature_reduce, PARCMetric) *)
(* Python's None is modelled as the empty sequence and a present value x   *)
(* as <<x>>; a Python str is a sequence of one-character strings; a dict   *)
(* is a function whose DOMAIN is its key set.                              *)
(***************************************************************************)
EXTENDS Integers, Sequences, FiniteSets, TLC

VARIABLES config, pc, error, thrown, warnings,
          wandbRun, loginCount, wandbInits, environ, initCalls, lastInit,
          metrics, inference_types, dataset, labels, dropCalls,
          results, it, model_input, test_metrics,
          featuresCalls, modelCalls, lastInference, scored, passes,
          fileState, fileWrites, wandbLogs, stageLog, hub, cachingDisabled,
          top, call, ret

vars == <<config, pc, error, thrown, warnings,
          wandbRun, loginCount, wandbInits, environ, initCalls, lastInit,
          metrics, inference_types, dataset, labels, dropCalls,
          results, it, model_input, test_metrics,
          featuresCalls, modelCalls, lastInference, scored, passes,
          fileState, fileWrites, wandbLogs, stageLog, hub, cachingDisabled,
          top, call, ret>>

wandbVars == <<wandbRun, loginCount, wandbInits, environ, lastInit>>
dataVars == <<metrics, inference_types, dataset, labels, dropCalls>>
runVars == <<results, it, model_input, test_metrics, featuresCalls, modelCalls,
             lastInference, scored, passes>>
sinkVars == <<fileState, fileWrites, wandbLogs>>
callVars == <<top, call, ret>>

(* ------------------------------ bounds --------------------------------- *)
MaxMetrics == 3
MaxCount == 3
MaxKeep == 3
MaxInitCalls == 1
MatN == 3
MaxDim == 3
MaxList == 2

(* --------------------------- Python values ----------------------------- *)
None == <<>>
Some(x) == <<x>>
Range(s) == {s[i] : i \in 1..Len(s)}
EmptyDict == [k \in {} |-> 0]
DictSet(d, k, v) == [x \in DOMAIN d \cup {k} |-> IF x = k THEN v ELSE d[x]]
DictPop(d, k) == [x \in DOMAIN d \ {k} |-> d[x]]

(* ------------------------------ errors --------------------------------- *)
LeastPopulatedPrefix == "The least populated class in label column has only 1 member"
NoError == [type |-> "None", msg |-> <<>>]
StratError == [type |-> "ValueError",
               msg |-> <<LeastPopulatedPrefix, ", which is too few.">>]
SizeError == [type |-> "ValueError", msg |-> <<"invalid keep_size">>]
ExternalFailure == [type |-> "RuntimeError", msg |-> <<"external resource failure">>]
ExternalLookalike == [type |-> "RuntimeError", msg |-> <<LeastPopulatedPrefix>>]
AlreadyInitialised == [type |-> "ValueError",
                       msg |-> <<"A wandb run has already been initialised">>]
NoJobType == [type |-> "ValueError", msg |-> <<"No Job type given">>]
NotImplemented(t) == [type |-> "NotImplementedError",
                      msg |-> <<"Not implemented inference for type '", t, "'">>]
StartsWith(e, prefix) == Len(e.msg) > 0 /\ e.msg[1] = prefix

IgnoredWandbWarning == "Ignored wandb initialisation as use_wandb=False"
StratWarning == "The train set has only one sample of some classes so can't be further subsetted with stratification to create the metrics set. A random split has been used instead."

(* ------------------------ create_wandb_names --------------------------- *)
NameLimit == 64
NameKeep == 25
LastChars(s, n) == SubSeq(s, Len(s) - n + 1, Len(s))
ReplaceSlash(s) == [i \in 1..Len(s) |-> IF s[i] = "/" THEN "-" ELSE s[i]]
create_wandb_names(dataset_name, additional_name) ==
    LET dn == IF Len(dataset_name) > NameLimit
              THEN LastChars(dataset_name, NameKeep) ELSE dataset_name
    IN  IF additional_name # None
        THEN ReplaceSlash(dn \o <<"_">> \o additional_name[1])
        ELSE dn

(* --------------------------- Config.__init__ --------------------------- *)
ConfigInit(model_name, dataset_name, n_samples, random_state, config_gen_dtime, caches, wandb_args, use_wandb, run_name) ==
    [model_name |-> model_name,
     dataset_name |-> dataset_name,
     random_state |-> random_state,
     config_gen_dtime |-> config_gen_dtime,
     caches |-> caches,
     use_wandb |-> use_wandb,
     wandb_args |-> wandb_args,
     run_name |-> IF run_name # None THEN run_name[1]
                  ELSE create_wandb_names(dataset_name, Some(model_name)),
     n_samples |-> n_samples]

(* ---------------------------- init_wandb ------------------------------- *)
GenDtimeIndex == 8
PyIndexFromEnd(s, k) == <<s[Len(s) - k + 1]>>

\* wandb_config as init_wandb builds it from wandb_args (log_model popped,
\* name and group defaulted); job_type is left as given.
WandbKwargs(cfg) ==
    LET c0 == cfg.wandb_args
        c1 == IF "log_model" \in DOMAIN c0 THEN DictPop(c0, "log_model") ELSE c0
        c2 == IF "name" \notin DOMAIN c1 THEN DictSet(c1, "name", cfg.run_name) ELSE c1
        c3 == IF "group" \notin DOMAIN c2
              THEN IF cfg.config_gen_dtime # None
                   THEN DictSet(c2, "group",
                                create_wandb_names(cfg.dataset_name,
                                    Some(PyIndexFromEnd(cfg.config_gen_dtime[1],
                                                        GenDtimeIndex))))
                   ELSE DictSet(c2, "group", create_wandb_names(cfg.dataset_name, None))
              ELSE c2
    IN  c3

EnvAfterCaches(env, cfg) ==
    IF "wandb" \in DOMAIN cfg.caches
    THEN DictSet(DictSet(env, "WANDB_CACHE_DIR", cfg.caches["wandb"]),
                 "WANDB_DATA_DIR", cfg.caches["wandb"])
    ELSE env
EnvAfterLogModel(env, cfg) ==
    IF "log_model" \in DOMAIN cfg.wandb_args
    THEN DictSet(env, "WANDB_LOG_MODEL", cfg.wandb_args["log_model"])
    ELSE env

RunIsActive == wandbRun > 0

init_wandb_unguarded(cfg, ext) ==
    LET base == [err |-> NoError, warn |-> warnings, run |-> wandbRun,
                 logins |-> loginCount, inits |-> wandbInits, env |-> environ,
                 ext |-> ext]
    IN  IF ~cfg.use_wandb
        THEN [base EXCEPT !.warn = Append(warnings, IgnoredWandbWarning)]
        ELSE IF ext = "login_fails"
        THEN [base EXCEPT !.err = ExternalFailure, !.env = EnvAfterCaches(environ, cfg)]
        ELSE IF "job_type" \notin DOMAIN WandbKwargs(cfg)
        THEN [base EXCEPT !.err = NoJobType, !.logins = loginCount + 1,
                          !.env = EnvAfterLogModel(EnvAfterCaches(environ, cfg), cfg)]
        ELSE IF ext = "init_fails"
        THEN [base EXCEPT !.err = ExternalFailure, !.logins = loginCount + 1,
                          !.env = EnvAfterLogModel(EnvAfterCaches(environ, cfg), cfg)]
        ELSE [base EXCEPT !.logins = loginCount + 1,
                          !.env = EnvAfterLogModel(EnvAfterCaches(environ, cfg), cfg),
                          !.run = wandbRun + 1,
                          !.inits = Append(wandbInits, WandbKwargs(cfg))]

\* Outcome of one call of config.init_wandb(); ext is what the wandb service
\* does in this call: "ok", "login_fails" or "init_fails".
\* [err, warn, run, logins, inits, env]
init_wandb(cfg, ext) ==
    LET base == [err |-> NoError, warn |-> warnings, run |-> wandbRun,
                 logins |-> loginCount, inits |-> wandbInits, env |-> environ,
                 ext |-> ext]
    IN  IF ~cfg.use_wandb
        THEN [base EXCEPT !.warn = Append(warnings, IgnoredWandbWarning)]
        ELSE IF RunIsActive
        THEN [base EXCEPT !.err = AlreadyInitialised]
        ELSE IF ext = "login_fails"
        THEN [base EXCEPT !.err = ExternalFailure, !.env = EnvAfterCaches(environ, cfg)]
        ELSE IF "job_type" \notin DOMAIN WandbKwargs(cfg)
        THEN [base EXCEPT !.err = NoJobType, !.logins = loginCount + 1,
                          !.env = EnvAfterLogModel(EnvAfterCaches(environ, cfg), cfg)]
        ELSE IF ext = "init_fails"
        THEN [base EXCEPT !.err = ExternalFailure, !.logins = loginCount + 1,
                          !.env = EnvAfterLogModel(EnvAfterCaches(environ, cfg), cfg)]
        ELSE [base EXCEPT !.logins = loginCount + 1,
                          !.env = EnvAfterLogModel(EnvAfterCaches(environ, cfg), cfg),
                          !.run = wandbRun + 1,
                          !.inits = Append(wandbInits, WandbKwargs(cfg))]

WandbExt == {"ok", "login_fails", "init_fails"}

ApplyInitWandb(o) ==
    /\ warnings' = o.warn
    /\ wandbRun' = o.run
    /\ loginCount' = o.logins
    /\ wandbInits' = o.inits
    /\ environ' = o.env
    /\ lastInit' = Some([before |-> [run |-> wandbRun, logins |-> loginCount,
                                    inits |-> wandbInits, warn |-> warnings],
                        after |-> o])


(* ------------------------------ datasets ------------------------------- *)
\* A dataset is the number of samples it holds of each category.
Classes == {"a", "b"}
Datasets == [Classes -> 0..MaxCount] \ {[c \in Classes |-> 0]}
RECURSIVE SumOver(_, _)
SumOver(f, S) == IF S = {} THEN 0
                 ELSE LET c == CHOOSE x \in S : TRUE IN f[c] + SumOver(f, S \ {c})
Size(ds) == SumOver(ds, DOMAIN ds)
Present(ds) == {c \in DOMAIN ds : ds[c] > 0}
SubDatasets(ds, k) ==
    {s \in [DOMAIN ds -> 0..MaxCount] : (\A c \in DOMAIN ds : s[c] <= ds[c]) /\ Size(s) = k}
DefaultStratify == Some("label")

\* drop_images(dataset, keep_size, seed, stratify_by_column): the set of
\* outcomes [err, ds] the dataset provider can produce for one call.
drop_images(ds, keep_size, seed, stratify_by_column) ==
    IF keep_size = None \/ keep_size[1] = Size(ds)
    THEN {[err |-> NoError, ds |-> ds]}
    ELSE IF keep_size[1] > Size(ds)
    THEN {[err |-> SizeError, ds |-> ds]}
    ELSE IF stratify_by_column # None /\ (\E c \in DOMAIN ds : ds[c] = 1)
    THEN {[err |-> StratError, ds |-> ds]}
    ELSE IF stratify_by_column # None /\ keep_size[1] < Cardinality(Present(ds))
    THEN {[err |-> SizeError, ds |-> ds]}
    ELSE {[err |-> NoError, ds |-> s] :
              s \in {x \in SubDatasets(ds, keep_size[1]) :
                        stratify_by_column # None => Present(x) = Present(ds)}}
         \cup {[err |-> e, ds |-> ds] : e \in {ExternalFailure, ExternalLookalike}}

DropCall(ds, keep_size, seed, stratify_by_column) ==
    [ds |-> ds, keep_size |-> keep_size, seed |-> seed,
     stratify_by_column |-> stratify_by_column]

(* ------------------------------ metrics -------------------------------- *)
TypeFeatures == Some("features")
TypeModel == Some("model")
TypeUnknown == Some("gradients")
METRICS == [m \in {"parc", "renggli", "n_pars", "prior", "custom"} |->
               CASE m = "parc" -> TypeFeatures
                 [] m = "renggli" -> TypeFeatures
                 [] m = "n_pars" -> TypeModel
                 [] m = "prior" -> None
                 [] m = "custom" -> TypeUnknown]

\* keys of {metric: ... for metric in config.metrics}, in insertion order
RECURSIVE DictKeys(_)
DictKeys(s) == IF s = <<>> THEN <<>>
               ELSE LET r == DictKeys(SubSeq(s, 1, Len(s) - 1))
                        x == s[Len(s)]
                    IN  IF x \in Range(r) THEN r ELSE Append(r, x)
MetricsDict(cfg) == [names |-> DictKeys(cfg.metrics),
                     inference_type |-> [m \in Range(cfg.metrics) |-> METRICS[m]]]
DeclaredTypes(md) == {md.inference_type[m] : m \in DOMAIN md.inference_type}
\* list(set(...)): every ordering of the distinct declared types
Orderings(S) == {q \in [1..Cardinality(S) -> S] : Range(q) = S}
InferenceTypeListsPerMetric(md) ==
    {[i \in 1..Len(md.names) |-> md.inference_type[md.names[i]]]}
InferenceTypeLists(md) == Orderings(DeclaredTypes(md))
RECURSIVE SelectSeq2(_, _, _)
SelectSeq2(s, md, t) ==
    IF s = <<>> THEN <<>>
    ELSE IF md.inference_type[Head(s)] = t
         THEN <<Head(s)>> \o SelectSeq2(Tail(s), md, t)
         ELSE SelectSeq2(Tail(s), md, t)
TestMetricsFirstOnly(md, t) == SubSeq(SelectSeq2(md.names, md, t), 1, 1)
TestMetrics(md, t) == SelectSeq2(md.names, md, t)

\* metric.fit_metric(model_input, dataset_input): a pure function of its
\* inputs, kept as the term it was applied to.
fit_metric(m, mi, di) == [metric |-> m, model_input |-> mi, dataset_input |-> di]
NoArtifact == [kind |-> "None", of |-> <<>>]

(* -------------------------- perform_inference -------------------------- *)
InferenceExt == {"ok", "get_model_fails", "get_processor_fails", "get_features_fails"}
features_inference(ds, ext) ==
    IF ext = "get_model_fails"
    THEN [err |-> ExternalFailure, artifact |-> NoArtifact,
          calls |-> <<"get_model_without_head">>]
    ELSE IF ext = "get_processor_fails"
    THEN [err |-> ExternalFailure, artifact |-> NoArtifact,
          calls |-> <<"get_model_without_head", "get_processor">>]
    ELSE IF ext = "get_features_fails"
    THEN [err |-> ExternalFailure, artifact |-> NoArtifact,
          calls |-> <<"get_model_without_head", "get_processor", "get_features">>]
    ELSE [err |-> NoError, artifact |-> [kind |-> "features", of |-> <<ds>>],
          calls |-> <<"get_model_without_head", "get_processor", "get_features">>]
model_inference_extracting(ext) ==
    IF ext = "get_model_fails"
    THEN [err |-> ExternalFailure, artifact |-> NoArtifact,
          calls |-> <<"get_model_without_head">>]
    ELSE [err |-> NoError, artifact |-> [kind |-> "model", of |-> <<>>],
          calls |-> <<"get_model_without_head", "get_processor", "get_features">>]
model_inference(ext) ==
    IF ext = "get_model_fails"
    THEN [err |-> ExternalFailure, artifact |-> NoArtifact,
          calls |-> <<"get_model_without_head">>]
    ELSE [err |-> NoError, artifact |-> [kind |-> "model", of |-> <<>>],
          calls |-> <<"get_model_without_head">>]
perform_inference_lenient(inference_type, ds, ext) ==
    LET r == IF inference_type = TypeFeatures THEN features_inference(ds, ext)
             ELSE IF inference_type = TypeModel THEN model_inference(ext)
             ELSE [err |-> NoError, artifact |-> NoArtifact, calls |-> <<>>]
    IN  [type |-> inference_type, err |-> r.err, artifact |-> r.artifact,
         calls |-> r.calls,
         returned |-> IF r.err = NoError THEN <<r.artifact, Len(r.calls)>> ELSE <<>>]
\* [type, err, artifact, calls, returned]; the elapsed time returned counts one
\* tick per provider call made between the two time() readings.
perform_inference(inference_type, ds, ext) ==
    LET r == IF inference_type = TypeFeatures THEN features_inference(ds, ext)
             ELSE IF inference_type = TypeModel THEN model_inference(ext)
             ELSE IF inference_type # None
             THEN [err |-> NotImplemented(inference_type[1]), artifact |-> NoArtifact,
                   calls |-> <<>>]
             ELSE [err |-> NoError, artifact |-> NoArtifact, calls |-> <<>>]
    IN  [type |-> inference_type, err |-> r.err, artifact |-> r.artifact,
         calls |-> r.calls,
         returned |-> IF r.err = NoError THEN <<r.artifact, Len(r.calls)>> ELSE <<>>]

(* ------------------------------- inputs -------------------------------- *)
ModelName == <<"m">>
ShortName == <<"d", "/", "s">>
LongNameLen == 65
LongName == [i \in 1..LongNameLen |-> IF i = LongNameLen - 3 THEN "/" ELSE "x"]
GenDtime == <<"2", "0", "2", "4", "0", "1", "3", "1", "-", "1", "2", "5", "9">>
TmpCache == <<"t", "m", "p">>
BaseCaches == [k \in {"datasets", "models"} |-> <<"c">>]
WandbKeys == {"name", "group", "job_type", "log_model"}
UserValue(k) == <<"u", k>>
WandbArgs == {[k \in K |-> UserValue(k)] : K \in SUBSET WandbKeys}
KeepSizes == {None} \cup {Some(k) : k \in 1..MaxKeep}
RECURSIVE SeqsUpTo(_, _)
SeqsUpTo(S, n) == IF n = 0 THEN {<<>>}
                  ELSE LET r == SeqsUpTo(S, n - 1)
                       IN  r \cup {Append(q, x) : q \in r, x \in S}

\* MetricConfig: the Config fields plus the metric experiment's own.
MetricConfigInit(base, metric_names, metrics_samples, local_save) ==
    [model_name |-> base.model_name, dataset_name |-> base.dataset_name,
     random_state |-> base.random_state, config_gen_dtime |-> base.config_gen_dtime,
     caches |-> base.caches, use_wandb |-> base.use_wandb,
     wandb_args |-> base.wandb_args, run_name |-> base.run_name,
     n_samples |-> base.n_samples,
     metrics |-> metric_names, metrics_samples |-> metrics_samples,
     local_save |-> local_save]

JobTypeOnly == [k \in {"job_type"} |-> UserValue(k)]
\* runs that vary the metric list
MetricRuns ==
    {MetricConfigInit(ConfigInit(ModelName, ShortName, None, 0, None, BaseCaches,
                                 JobTypeOnly, uw, None), ms, Some(2), ls) :
        uw \in BOOLEAN, ls \in BOOLEAN, ms \in SeqsUpTo(DOMAIN METRICS, MaxMetrics)}
\* runs that vary the dataset and the two sample counts
DataRuns ==
    {MetricConfigInit(ConfigInit(ModelName, ShortName, ns, rs, None, BaseCaches,
                                 EmptyDict, FALSE, None), <<"parc", "n_pars">>, k, TRUE) :
        ns \in KeepSizes, k \in KeepSizes, rs \in {0, 1}}
\* runs that vary the tracking arguments
WandbRuns ==
    {MetricConfigInit(ConfigInit(ModelName, dn, None, 0, dt, c, wa, uw, rn),
                      <<"parc">>, None, FALSE) :
        dn \in {ShortName, LongName}, dt \in {None, Some(GenDtime)},
        c \in {BaseCaches, DictSet(BaseCaches, "wandb", <<"w">>),
                DictSet(BaseCaches, "preprocess_cache", TmpCache)},
        wa \in WandbArgs, uw \in BOOLEAN, rn \in {None, Some(<<"r">>)}}
EvenDataset == [c \in Classes |-> 2]

NoResults == [config |-> <<>>, inference_times |-> EmptyDict, metric_scores |-> EmptyDict]

NoTop == [attrs |-> EmptyDict, num_configs |-> 0]
NoCall == [fn |-> "none"]

Init ==
    /\ \/ config \in MetricRuns /\ hub = EvenDataset /\ wandbRun = 0
       \/ config \in DataRuns /\ hub \in Datasets /\ wandbRun = 0
       \/ config \in WandbRuns /\ hub = EvenDataset /\ wandbRun \in {0, 1}
    /\ pc = "start"
    /\ error = NoError
    /\ thrown = <<>>
    /\ warnings = <<>>
    /\ loginCount = 0
    /\ wandbInits = <<>>
    /\ environ = EmptyDict
    /\ initCalls = 0
    /\ lastInit = None
    /\ metrics = [names |-> <<>>, inference_type |-> EmptyDict]
    /\ inference_types = <<>>
    /\ dataset = hub
    /\ labels = <<>>
    /\ dropCalls = <<>>
    /\ results = NoResults
    /\ it = 1
    /\ model_input = NoArtifact
    /\ test_metrics = <<>>
    /\ featuresCalls = 0
    /\ modelCalls = 0
    /\ lastInference = None
    /\ passes = <<>>
    /\ scored = EmptyDict
    /\ fileState = "absent"
    /\ fileWrites = 0
    /\ wandbLogs = <<>>
    /\ stageLog = <<>>
    /\ cachingDisabled = FALSE
    /\ top = NoTop
    /\ call = NoCall
    /\ ret = None

(* ------------------------------ actions -------------------------------- *)
Raise(stage, e) ==
    /\ pc' = "failed"
    /\ error' = e
    /\ thrown' = Append(thrown, [stage |-> stage, err |-> e])

\* config.init_wandb() called on its own by the configuration layer
DirectInitWandb ==
    /\ pc = "start"
    /\ initCalls < MaxInitCalls
    /\ initCalls' = initCalls + 1
    /\ \E ext \in WandbExt :
         LET o == init_wandb(config, ext)
         IN  /\ ApplyInitWandb(o)
             /\ IF o.err # NoError
                THEN Raise("init_wandb", o.err)
                ELSE UNCHANGED <<pc, error, thrown>>
    /\ UNCHANGED <<callVars, config, hub, cachingDisabled, dataVars, runVars, sinkVars, stageLog>>

\* run_config, line 285: config.caches.get("preprocess_cache") == "tmp"
PreprocessCacheIsTmp(cfg) ==
    "preprocess_cache" \in DOMAIN cfg.caches /\ cfg.caches["preprocess_cache"] = TmpCache

\* run_config, lines 282-286: start the tracking session when enabled, and
\* disable the datasets cache when the preprocess cache is "tmp"
RunConfigStart ==
    /\ pc = "start"
    /\ IF config.use_wandb
       THEN /\ stageLog' = Append(stageLog, "wandb_init")
            /\ \E ext \in WandbExt :
                 LET o == init_wandb(config, ext)
                 IN  /\ ApplyInitWandb(o)
                     /\ IF o.err # NoError
                        THEN Raise("wandb_init", o.err) /\ UNCHANGED cachingDisabled
                        ELSE /\ pc' = "construct"
                             /\ cachingDisabled' = PreprocessCacheIsTmp(config)
                             /\ UNCHANGED <<error, thrown>>
       ELSE /\ pc' = "construct"
            /\ cachingDisabled' = PreprocessCacheIsTmp(config)
            /\ UNCHANGED <<stageLog, error, thrown, warnings, wandbVars>>
    /\ UNCHANGED <<callVars, config, hub, initCalls, dataVars, runVars, sinkVars>>

\* __init__, lines 52-87: build the metrics, then load the dataset
ConstructLoad ==
    /\ pc = "construct"
    /\ stageLog' = Append(stageLog, "load")
    /\ metrics' = MetricsDict(config)
    /\ inference_types' \in InferenceTypeLists(MetricsDict(config))
    /\ \E e \in {NoError, ExternalFailure} :
         IF e # NoError
         THEN Raise("load", e) /\ UNCHANGED dataset
         ELSE /\ dataset' = hub
              /\ pc' = "loaded"
              /\ UNCHANGED <<error, thrown>>
    /\ UNCHANGED <<callVars, config, hub, cachingDisabled, warnings, wandbVars, initCalls, labels, dropCalls,
                   runVars, sinkVars>>

\* __init__, lines 89-101: create the splits and take the train split
CreateDataSplits ==
    /\ pc = "loaded"
    /\ stageLog' = Append(stageLog, "split")
    /\ \E e \in {NoError, ExternalFailure} :
         IF e # NoError
         THEN Raise("split", e)
         ELSE pc' = "split" /\ UNCHANGED <<error, thrown>>
    /\ UNCHANGED <<callVars, config, hub, cachingDisabled, warnings, wandbVars, initCalls, dataVars, runVars,
                   sinkVars>>

\* __init__, lines 103-109: subset to n_samples
SubsetNSamples ==
    /\ pc = "split"
    /\ stageLog' = Append(stageLog, "n_samples")
    /\ dropCalls' = Append(dropCalls, DropCall(dataset, config.n_samples,
                                                config.random_state, DefaultStratify))
    /\ \E o \in drop_images(dataset, config.n_samples, config.random_state,
                            DefaultStratify) :
         IF o.err # NoError
         THEN Raise("n_samples", o.err) /\ UNCHANGED dataset
         ELSE /\ dataset' = o.ds
              /\ pc' = "n_subset"
              /\ UNCHANGED <<error, thrown>>
    /\ UNCHANGED <<callVars, config, hub, cachingDisabled, warnings, wandbVars, initCalls, metrics,
                   inference_types, labels, runVars, sinkVars>>

CatchesAnyValueError(e) == e.type = "ValueError"
\* the except clause's test, lines 119-122
CatchesStratFailure(e) ==
    e.type = "ValueError" /\ StartsWith(e, LeastPopulatedPrefix)
RetryStratifyAgain == DefaultStratify
RetryStratify == None

metrics_subset_unguarded(ds, keep_size, seed) ==
    {[err |-> o1.err, ds |-> o1.ds, warn |-> <<>>,
      calls |-> <<DropCall(ds, keep_size, seed, DefaultStratify)>>,
      raised |-> IF o1.err # NoError THEN <<o1.err>> ELSE <<>>] :
        o1 \in drop_images(ds, keep_size, seed, DefaultStratify)}
\* __init__, lines 111-135: the outcomes [err, ds, warn, calls, raised] of the
\* metrics_samples subset with its fallback
metrics_subset(ds, keep_size, seed) ==
    LET c1 == DropCall(ds, keep_size, seed, DefaultStratify)
        c2 == DropCall(ds, keep_size, seed, RetryStratify)
    IN  UNION {
          IF o1.err = NoError
          THEN {[err |-> NoError, ds |-> o1.ds, warn |-> <<>>, calls |-> <<c1>>,
                 raised |-> <<>>]}
          ELSE IF CatchesStratFailure(o1.err)
          THEN {[err |-> o2.err, ds |-> o2.ds, warn |-> <<StratWarning>>,
                 calls |-> <<c1, c2>>,
                 raised |-> IF o2.err # NoError THEN <<o1.err, o2.err>> ELSE <<o1.err>>] :
                   o2 \in drop_images(ds, keep_size, seed, RetryStratify)}
          ELSE {[err |-> o1.err, ds |-> ds, warn |-> <<>>, calls |-> <<c1>>,
                 raised |-> <<o1.err>>]} :
          o1 \in drop_images(ds, keep_size, seed, DefaultStratify)}

AsThrown(stage, errs) == [i \in 1..Len(errs) |-> [stage |-> stage, err |-> errs[i]]]

\* __init__, lines 111-147: subset to metrics_samples, then labels and results
SubsetMetricsSamples ==
    /\ pc = "n_subset"
    /\ stageLog' = Append(stageLog, "metrics_samples")
    /\ \E o \in metrics_subset(dataset, config.metrics_samples, config.random_state) :
         /\ dropCalls' = dropCalls \o o.calls
         /\ warnings' = warnings \o o.warn
         /\ thrown' = thrown \o AsThrown("metrics_samples", o.raised)
         /\ IF o.err # NoError
            THEN /\ pc' = "failed"
                 /\ error' = o.err
                 /\ UNCHANGED <<dataset, labels, results>>
            ELSE /\ dataset' = o.ds
                 /\ labels' = o.ds
                 /\ results' = [config |-> Some(config), inference_times |-> EmptyDict,
                                metric_scores |-> EmptyDict]
                 /\ pc' = "data_ready"
                 /\ UNCHANGED error
    /\ UNCHANGED <<callVars, config, hub, cachingDisabled, wandbVars, initCalls, metrics, inference_types,
                   it, model_input, test_metrics, featuresCalls, modelCalls,
                   lastInference, scored, passes, sinkVars>>

\* run_experiment, lines 227-229: enter the loop over inference_types
RunExperimentStart ==
    /\ pc = "data_ready"
    /\ stageLog' = Append(stageLog, "run")
    /\ it' = 1
    /\ pc' = IF Len(inference_types) = 0 THEN "ran" ELSE "infer"
    /\ UNCHANGED <<callVars, config, hub, cachingDisabled, error, thrown, warnings, wandbVars, initCalls, dataVars,
                   results, model_input, test_metrics, featuresCalls, modelCalls,
                   lastInference, scored, passes, sinkVars>>

NextModelInputStale(prev, o) ==
    IF o.returned[1] = NoArtifact THEN prev ELSE o.returned[1]
\* run_experiment, line 232: model_input is what this pass returned
NextModelInput(prev, o) == o.returned[1]

\* run_experiment, lines 229-239: one inference pass and its metric group
PerformInference ==
    /\ pc = "infer"
    /\ \E ext \in InferenceExt :
         LET t == inference_types[it]
             o == perform_inference(t, dataset, ext)
         IN  /\ lastInference' = Some(o)
             /\ passes' = Append(passes, t)
             /\ featuresCalls' = featuresCalls + (IF t = TypeFeatures THEN 1 ELSE 0)
             /\ modelCalls' = modelCalls + (IF t = TypeModel THEN 1 ELSE 0)
             /\ IF o.err # NoError
                THEN /\ Raise("run", o.err)
                     /\ UNCHANGED <<results, model_input, test_metrics>>
                ELSE /\ model_input' = NextModelInput(model_input, o)
                     /\ results' = [results EXCEPT !.inference_times =
                                       DictSet(@, t, o.returned[2])]
                     /\ test_metrics' = TestMetrics(metrics, t)
                     /\ pc' = "score"
                     /\ UNCHANGED <<error, thrown>>
    /\ UNCHANGED <<callVars, config, hub, cachingDisabled, warnings, wandbVars, initCalls, dataVars, it, scored,
                   sinkVars, stageLog>>

MetricTick == 1
\* compute_metric_score, lines 215-219: [err, returned]
compute_metric_score(m, mi, di, ext) ==
    IF ext = "ok"
    THEN [err |-> NoError, returned |-> <<fit_metric(m, mi, di), MetricTick>>]
    ELSE [err |-> SizeError, returned |-> <<>>]

\* run_experiment, lines 240-249: score the next metric of the group
ScoreMetric ==
    /\ pc = "score"
    /\ \E ext \in {"ok", "fit_fails"} :
         LET m == Head(test_metrics)
             o == compute_metric_score(m, model_input, labels, ext)
         IN  IF o.err # NoError
             THEN /\ results' = [results EXCEPT !.metric_scores = DictSet(@, m, EmptyDict)]
                  /\ Raise("run", o.err)
                  /\ UNCHANGED <<test_metrics, it, scored>>
             ELSE /\ results' = [results EXCEPT !.metric_scores =
                        DictSet(@, m, [k \in {"score", "time"} |->
                                          IF k = "score" THEN o.returned[1]
                                          ELSE o.returned[2]])]
                  /\ scored' = DictSet(scored, m, o.returned[1])
                  /\ test_metrics' = Tail(test_metrics)
                  /\ it' = IF Len(test_metrics) = 1 THEN it + 1 ELSE it
                  /\ pc' = IF Len(test_metrics) > 1 THEN "score"
                           ELSE IF it + 1 > Len(inference_types) THEN "ran"
                           ELSE "infer"
                  /\ UNCHANGED <<error, thrown>>
    /\ UNCHANGED <<callVars, config, hub, cachingDisabled, warnings, wandbVars, initCalls, dataVars, model_input,
                   featuresCalls, modelCalls, lastInference, passes, sinkVars, stageLog>>

SaveAlways(cfg) == TRUE
\* run_config, line 291: whether the results are saved locally
SaveEnabled(cfg) == cfg.local_save

\* run_config, lines 291-292 with save_results, lines 253-254
SaveResults ==
    /\ pc = "ran"
    /\ IF SaveEnabled(config)
       THEN /\ stageLog' = Append(stageLog, "save")
            /\ \E ext \in {"ok", "open_fails", "dump_fails"} :
                 IF ext = "ok"
                 THEN /\ fileState' = "written"
                      /\ fileWrites' = fileWrites + 1
                      /\ pc' = "saved"
                      /\ UNCHANGED <<error, thrown>>
                 ELSE /\ fileState' = IF ext = "dump_fails" THEN "partial" ELSE fileState
                      /\ UNCHANGED fileWrites
                      /\ Raise("save", ExternalFailure)
       ELSE /\ pc' = "saved"
            /\ UNCHANGED <<stageLog, fileState, fileWrites, error, thrown>>
    /\ UNCHANGED <<callVars, config, hub, cachingDisabled, warnings, wandbVars, initCalls, dataVars, runVars,
                   wandbLogs>>

\* run_config, lines 294-296 with log_wandb_results, lines 259-260
LogWandbResults ==
    /\ pc = "saved"
    /\ IF config.use_wandb
       THEN /\ stageLog' = Append(stageLog, "log")
            /\ \E e \in {NoError, ExternalFailure} :
                 IF e # NoError
                 THEN /\ Raise("log", e)
                      /\ UNCHANGED <<wandbLogs, wandbRun>>
                 ELSE /\ wandbLogs' = Append(wandbLogs, results)
                      /\ wandbRun' = 0
                      /\ pc' = "completed"
                      /\ UNCHANGED <<error, thrown>>
       ELSE /\ pc' = "completed"
            /\ UNCHANGED <<stageLog, wandbLogs, wandbRun, error, thrown>>
    /\ UNCHANGED <<callVars, config, hub, cachingDisabled, warnings, loginCount, wandbInits, environ, lastInit,
                   initCalls, dataVars, runVars, fileState, fileWrites>>

Next ==
    \/ DirectInitWandb
    \/ RunConfigStart
    \/ ConstructLoad
    \/ CreateDataSplits
    \/ SubsetNSamples
    \/ SubsetMetricsSamples
    \/ RunExperimentStart
    \/ PerformInference
    \/ ScoreMetric
    \/ SaveResults
    \/ LogWandbResults

Spec == Init /\ [][Next]_vars

(* ---------------- PARC helpers and the config generator ----------------- *)
(* Functions called on their own: a call record holds the arguments, ret    *)
(* the outcome ([returned |-> <<value>>, err |-> NoError] or an error).      *)
Returned(v) == [returned |-> Some(v), err |-> NoError]
Raised(e) == [returned |-> None, err |-> e]
RECURSIVE SumSeq(_)
SumSeq(q) == IF q = <<>> THEN 0 ELSE Head(q) + SumSeq(Tail(q))

\* _lower_tri_arr: the entries above the diagonal, row by row
RECURSIVE TriRows(_, _)
TriRows(a, i) ==
    IF i > Len(a) THEN <<>>
    ELSE SubSeq(a[i], i + 1, Len(a)) \o TriRows(a, i + 1)
RECURSIVE TriColumns(_, _)
TriColumns(a, i) ==
    IF i > Len(a) THEN <<>>
    ELSE [k \in 1..(Len(a) - i) |-> a[i + k][i]] \o TriColumns(a, i + 1)
_lower_tri_arr_below(a) == TriColumns(a, 1)
_lower_tri_arr(a) == TriRows(a, 1)

\* test_lower_tri
TestN == 5
RowMajor(n) == [i \in 1..n |-> [j \in 1..n |-> (i - 1) * n + j]]
ClosedFormSum(n) ==
    (n * n * (n * n + 1)) \div 2
    - SumSeq([k \in 1..n |-> (k * (k * (2 * n + 1) - 2 * n + 1)) \div 2])

Bits == {0, 1}
SquareMatrices(n) == [1..n -> [1..n -> Bits]]
TriCalls ==
    {[fn |-> "_lower_tri_arr", arr |-> a] :
        a \in UNION {SquareMatrices(n) : n \in 0..MatN}
              \cup {RowMajor(n) : n \in 1..TestN}}

\* _feature_reduce: a feature matrix is its shape and the transforms applied
InvalidDimension ==
    [type |-> "ValueError",
     msg |-> <<"Reduced dimension should not be more than minimum of n_samples, n_features">>]
Min(x, y) == IF x < y THEN x ELSE y
Features(n, d) == [n |-> n, d |-> d, steps |-> <<>>]
Shape(F) == <<F.n, F.d>>
_feature_reduce_clipping(F, random_state, f) ==
    IF f = None THEN Returned(F)
    ELSE Returned([n |-> F.n, d |-> Min(f[1], Min(F.n, F.d)),
                   steps |-> Append(F.steps, "pca")])
_feature_reduce(F, random_state, f) ==
    IF f = None THEN Returned(F)
    ELSE IF f[1] > Min(F.n, F.d) THEN Raised(InvalidDimension)
    ELSE Returned([n |-> F.n, d |-> f[1], steps |-> Append(F.steps, "pca")])

\* PARCMetric: its configuration, and fit_metric up to the reduced features
PARCMetric(random_state, feat_red_dim, scale_features) ==
    [metric_name |-> "parc", inference_type |-> TypeFeatures,
     dataset_dependent |-> TRUE, random_state |-> random_state,
     feat_red_dim |-> feat_red_dim, scale_features |-> scale_features]
parc_fit_metric(metric, F, lbls) ==
    LET scaled == IF metric.scale_features
                  THEN [F EXCEPT !.steps = Append(@, "scaled")] ELSE F
        red == _feature_reduce(scaled, metric.random_state, metric.feat_red_dim)
    IN  IF red.err # NoError THEN Raised(red.err)
        ELSE Returned(fit_metric("parc", red.returned[1], lbls))

Seeds == {0, 1}
TargetDims == {None} \cup {Some(f) : f \in 1..(MaxDim + 1)}
FeatureInputs == {Features(n, d) : n \in 1..MaxDim, d \in 1..MaxDim}
ReduceCalls ==
    {[fn |-> "_feature_reduce", features |-> F, random_state |-> rs, f |-> f] :
        F \in FeatureInputs, rs \in Seeds, f \in TargetDims}
FitCalls ==
    {[fn |-> "fit_metric", metric |-> PARCMetric(rs, f, sc), features |-> F,
      labels |-> <<"a", "b">>] :
        F \in FeatureInputs, rs \in Seeds, f \in TargetDims, sc \in BOOLEAN}

\* TopLevelConfig._gen_sweep_dicts. An attribute value is a list of items or
\* a single value; a dict that keeps insertion order is its keys in order
\* and its values by key.
SlurmLimit == 1001
SlurmWarning == "Slurm array jobs cannot exceed more than 1001!"
UnpackError == [type |-> "ValueError",
                msg |-> <<"not enough values to unpack (expected 2, got 0)">>]
PyAtom(x) == [kind |-> "atom", value |-> x]
PyList(items) == [kind |-> "list", items |-> items]
EmptyOrdered == [keys |-> <<>>, vals |-> EmptyDict]
OrderedPut(od, k, v) ==
    [keys |-> IF k \in Range(od.keys) THEN od.keys ELSE Append(od.keys, k),
     vals |-> DictSet(od.vals, k, v)]
RECURSIVE FillSweepDict(_, _, _)
FillSweepDict(self, sweep_args, od) ==
    IF sweep_args = <<>> THEN od
    ELSE LET toplevel_arg == Head(sweep_args)[1]
             config_arg == Head(sweep_args)[2]
             v == self.attrs[toplevel_arg]
         IN  FillSweepDict(self, Tail(sweep_args),
                           OrderedPut(od, config_arg,
                                      IF v.kind = "list" THEN v.items ELSE <<v>>))
\* itertools.product: the last list varies fastest
RECURSIVE Product(_)
Product(lists) ==
    IF lists = <<>> THEN << <<>> >>
    ELSE LET rest == Product(Tail(lists))
             h == Head(lists)
             n == Len(rest)
         IN  [k \in 1..(Len(h) * n) |->
                 <<h[((k - 1) \div n) + 1]>> \o rest[((k - 1) % n) + 1]]
ReachesSlurmLimit(n) == n >= SlurmLimit
ExceedsSlurmLimit(n) == n > SlurmLimit
_gen_sweep_dicts(self, sweep_args, keep_args) ==
    LET sweep_dict == FillSweepDict(self, sweep_args, EmptyOrdered)
        sweep_dict_keys == sweep_dict.keys
    IN  IF sweep_dict_keys = <<>>
        THEN [out |-> Raised(UnpackError), num_configs |-> self.num_configs,
              warn |-> <<>>]
        ELSE LET sweep_dict_vals == [i \in 1..Len(sweep_dict_keys) |->
                                        sweep_dict.vals[sweep_dict_keys[i]]]
                 combos == Product(sweep_dict_vals)
                 pos(key) == CHOOSE i \in 1..Len(sweep_dict_keys) :
                                 sweep_dict_keys[i] = key
                 param_sweep_dicts ==
                     [k \in 1..Len(combos) |->
                         [x \in Range(sweep_dict_keys) \cup Range(keep_args) |->
                             IF x \in Range(keep_args) THEN self.attrs[x]
                             ELSE combos[k][pos(x)]]]
                 num == Len(param_sweep_dicts)
             IN  [out |-> Returned(param_sweep_dicts), num_configs |-> num,
                  warn |-> IF ExceedsSlurmLimit(num) THEN <<SlurmWarning>> ELSE <<>>]

Items(k) == [i \in 1..k |-> PyAtom(i)]
Single == PyAtom(0)
TopLevel(models, dataset_names, n_samples) ==
    [attrs |-> [a \in {"models", "dataset_names", "n_samples", "caches", "use_wandb"} |->
                   CASE a = "models" -> models
                     [] a = "dataset_names" -> dataset_names
                     [] a = "n_samples" -> n_samples
                     [] a = "caches" -> PyAtom(0)
                     [] OTHER -> PyAtom(1)],
     num_configs |-> 0]
ModelsArg == <<"models", "model_name">>
DatasetArg == <<"dataset_names", "dataset_name">>
SamplesArg == <<"n_samples", "n_samples">>
SweepArgChoices ==
    {<<ModelsArg, DatasetArg, SamplesArg>>, <<SamplesArg, ModelsArg>>, <<DatasetArg>>,
     <<>>, <<ModelsArg, <<"dataset_names", "model_name">>>>}
KeepArgChoices == {<<>>, <<"caches", "use_wandb">>, <<"caches", "n_samples">>}
SmallTops ==
    {TopLevel(PyList(Items(m)), ds, ns) :
        m \in 0..MaxList,
        ds \in {Single} \cup {PyList(Items(k)) : k \in 1..MaxList},
        ns \in {Single, PyList(Items(MaxList)), PyList(<<PyAtom(1), PyAtom(1)>>)}}
SmallSweeps ==
    {[fn |-> "_gen_sweep_dicts", sweep_args |-> sa, keep_args |-> ka] :
        sa \in SweepArgChoices, ka \in KeepArgChoices}
\* sweeps whose size is at, and just above, the Slurm array limit
LargeTops ==
    {TopLevel(PyList(Items(SlurmLimit)), Single, Single),
     TopLevel(PyList(Items(SlurmLimit + 1)), Single, Single),
     TopLevel(PyList(Items((SlurmLimit + 1) \div 2)), PyList(Items(2)), Single)}
LargeSweep ==
    [fn |-> "_gen_sweep_dicts", sweep_args |-> <<ModelsArg, DatasetArg>>,
     keep_args |-> <<"caches", "use_wandb">>]

IdleConfig ==
    MetricConfigInit(ConfigInit(ModelName, ShortName, None, 0, None, BaseCaches,
                                EmptyDict, FALSE, None), <<>>, None, FALSE)
PipelineIdle ==
    /\ config = IdleConfig /\ hub = EvenDataset /\ wandbRun = 0
    /\ pc = "start"
    /\ error = NoError
    /\ thrown = <<>>
    /\ warnings = <<>>
    /\ loginCount = 0
    /\ wandbInits = <<>>
    /\ environ = EmptyDict
    /\ initCalls = 0
    /\ lastInit = None
    /\ metrics = [names |-> <<>>, inference_type |-> EmptyDict]
    /\ inference_types = <<>>
    /\ dataset = hub
    /\ labels = <<>>
    /\ dropCalls = <<>>
    /\ results = NoResults
    /\ it = 1
    /\ model_input = NoArtifact
    /\ test_metrics = <<>>
    /\ featuresCalls = 0
    /\ modelCalls = 0
    /\ lastInference = None
    /\ passes = <<>>
    /\ scored = EmptyDict
    /\ fileState = "absent"
    /\ fileWrites = 0
    /\ wandbLogs = <<>>
    /\ stageLog = <<>>
    /\ cachingDisabled = FALSE
pipelineFrame == <<config, pc, error, thrown, wandbVars, initCalls, dataVars,
                   runVars, sinkVars, stageLog, hub, cachingDisabled>>

InitPure ==
    /\ PipelineIdle
    /\ ret = None
    /\ \/ call \in TriCalls /\ top = NoTop
       \/ call \in ReduceCalls /\ top = NoTop
       \/ call \in FitCalls /\ top = NoTop
       \/ call \in SmallSweeps /\ top \in SmallTops
       \/ call = LargeSweep /\ top \in LargeTops

LowerTriArr ==
    /\ call.fn = "_lower_tri_arr"
    /\ ret = None
    /\ ret' = Some(Returned(_lower_tri_arr(call.arr)))
    /\ UNCHANGED <<pipelineFrame, warnings, top, call>>

FeatureReduce ==
    /\ call.fn = "_feature_reduce"
    /\ ret = None
    /\ ret' = Some(_feature_reduce(call.features, call.random_state, call.f))
    /\ UNCHANGED <<pipelineFrame, warnings, top, call>>

ParcFitMetric ==
    /\ call.fn = "fit_metric"
    /\ ret = None
    /\ ret' = Some(parc_fit_metric(call.metric, call.features, call.labels))
    /\ UNCHANGED <<pipelineFrame, warnings, top, call>>

GenSweepDicts ==
    /\ call.fn = "_gen_sweep_dicts"
    /\ ret = None
    /\ LET o == _gen_sweep_dicts(top, call.sweep_args, call.keep_args)
       IN  /\ ret' = Some(o.out)
           /\ top' = [top EXCEPT !.num_configs = o.num_configs]
           /\ warnings' = warnings \o o.warn
    /\ UNCHANGED <<pipelineFrame, call>>

NextPure ==
    \/ LowerTriArr
    \/ FeatureReduce
    \/ ParcFitMetric
    \/ GenSweepDicts

SpecPure == InitPure /\ [][NextPure]_vars

(* ------------------------------- claims -------------------------------- *)
ConfiguredTypes == {METRICS[m] : m \in Range(config.metrics)}
FailedStage == IF pc = "failed" /\ Len(thrown) > 0 THEN thrown[Len(thrown)].stage
               ELSE "none"
RunExperimentReturned ==
    pc \in {"ran", "saved", "completed"} \/ FailedStage \in {"save", "log"}
Count(cond) == IF cond THEN 1 ELSE 0
IsPrefix(a, b) == Len(a) <= Len(b) /\ SubSeq(b, 1, Len(a)) = a
Occurrences(q, x) == Cardinality({i \in 1..Len(q) : q[i] = x})

\* C1: run_experiment performs inference exactly once per distinct inference
\* type declared by the configured metrics, never once per metric: no type is
\* passed to perform_inference twice, and once run_experiment has returned
\* every declared type has had its one pass (feature extraction once iff some
\* metric declares 'features', model loading once iff some declares 'model').
C1_InferenceOncePerType ==
    /\ \A i, j \in 1..Len(passes) : i # j => passes[i] # passes[j]
    /\ Range(passes) \subseteq ConfiguredTypes
    /\ featuresCalls = Occurrences(passes, TypeFeatures)
    /\ modelCalls = Occurrences(passes, TypeModel)
    /\ RunExperimentReturned =>
         /\ Range(passes) = ConfiguredTypes
         /\ featuresCalls = Count(TypeFeatures \in ConfiguredTypes)
         /\ modelCalls = Count(TypeModel \in ConfiguredTypes)
C1_Witness ==
    /\ pc = "ran"
    /\ config.metrics = <<"parc", "renggli", "n_pars">>
    /\ featuresCalls = 1
    /\ modelCalls = 1

StratFailureCaught ==
    \E i \in 1..Len(thrown) :
        thrown[i] = [stage |-> "metrics_samples", err |-> StratError]
\* C2: when the stratified metrics_samples subsampling fails with the
\* single-member-category failure, the Orchestrator warns and retries the same
\* request (same dataset, keep_size and seed) exactly once without
\* stratification, and a successful retry's result becomes the dataset.
C2_FallbackRetriesOnce ==
    /\ StratFailureCaught <=> Occurrences(warnings, StratWarning) > 0
    /\ Occurrences(warnings, StratWarning) <= 1
    /\ StratFailureCaught =>
         /\ Len(dropCalls) = 3
         /\ dropCalls[2].stratify_by_column = Some("label")
         /\ dropCalls[3] = [dropCalls[2] EXCEPT !.stratify_by_column = None]
         /\ dropCalls[3].keep_size = config.metrics_samples
         /\ dropCalls[3].seed = config.random_state
         /\ Len(thrown) = 1 =>
              /\ pc # "failed"
              /\ Size(dataset) = dropCalls[3].keep_size[1]
              /\ \A c \in Classes : dataset[c] <= dropCalls[3].ds[c]
              /\ labels = dataset
C2_Witness ==
    /\ StratFailureCaught
    /\ pc = "data_ready"
    /\ Len(dropCalls) = 3
    /\ dataset # dropCalls[3].ds

Swallowed ==
    {i \in 1..Len(thrown) :
        ~(i = Len(thrown) /\ pc = "failed" /\ error = thrown[i].err)}
\* C3: the stratification fallback is the only error swallowed: every error
\* raised in a run other than the single-member-category failure of the first
\* metrics_samples attempt reaches the caller unchanged, with no warning and
\* no retry; the retry's own failure propagates and there is no second retry.
C3_OnlyFallbackSwallowed ==
    /\ \A i \in Swallowed :
         /\ thrown[i].stage = "metrics_samples"
         /\ thrown[i].err.type = "ValueError"
         /\ thrown[i].err.msg[1] = LeastPopulatedPrefix
    /\ Cardinality(Swallowed) <= 1
    /\ Occurrences(warnings, StratWarning) = Cardinality(Swallowed)
    /\ Len(dropCalls) <= 2 + Cardinality(Swallowed)
    /\ pc = "failed" => Len(thrown) > 0 /\ error = thrown[Len(thrown)].err
    /\ pc # "failed" => error = NoError /\ Len(thrown) = Cardinality(Swallowed)
C3_Witness ==
    /\ pc = "failed"
    /\ Len(thrown) = 2
    /\ thrown[1].err = StratError
    /\ error = ExternalFailure
    /\ Len(dropCalls) = 3

SingleMemberScenario ==
    /\ \E c \in Classes : hub[c] = 1
    /\ config.n_samples # None
    /\ config.n_samples[1] > Cardinality(Classes)
    /\ config.metrics_samples # None
    /\ config.metrics_samples[1] > Cardinality(Classes)
\* C4 (as stated): constructing on a train split with a single-member
\* category and requested sample counts above the number of categories never
\* raises the stratification failure.
C4_NeverRaisesStratification ==
    SingleMemberScenario => ~(pc = "failed" /\ error = StratError)

\* C4 (amended): only the metrics_samples step has the fallback. A
\* stratification failure never escapes the metrics_samples step (it is met
\* with a warning and the non-stratified retry), and whenever construction
\* fails with the stratification failure it was raised by the n_samples step.
C4_FallbackOnlyForMetricsSamples ==
    /\ pc = "failed" /\ error = StratError =>
         /\ FailedStage = "n_samples"
         /\ Len(dropCalls) = 1
         /\ Occurrences(warnings, StratWarning) = 0
    /\ FailedStage = "metrics_samples" => error # StratError
    /\ StratFailureCaught /\ pc # "failed" =>
         /\ Occurrences(warnings, StratWarning) = 1
         /\ dropCalls[Len(dropCalls)].stratify_by_column = None
C4_Witness ==
    /\ pc = "data_ready"
    /\ \E c \in Classes : hub[c] = 1
    /\ config.n_samples = None
    /\ config.metrics_samples = Some(Cardinality(Classes) + 1)
    /\ warnings = <<StratWarning>>

\* C5 (as stated): when a metric declares an unsupported inference type the
\* error is raised before any feature extraction, model loading or scoring.
C5_FailsBeforeAnyInference ==
    pc = "failed" /\ error.type = "NotImplementedError" =>
        /\ featuresCalls = 0
        /\ modelCalls = 0
        /\ DOMAIN results.metric_scores = {}

\* C5 (amended): with an unsupported inference type declared, run_experiment
\* never returns; the not-implemented error is raised when the loop reaches
\* that type, before any provider call, timing entry or scoring for that type,
\* while passes for types earlier in the list have already been made.
C5_FailsWhenTypeIsReached ==
    /\ TypeUnknown \in ConfiguredTypes => ~RunExperimentReturned
    /\ pc = "failed" /\ error.type = "NotImplementedError" =>
         /\ lastInference # None
         /\ lastInference[1].type = TypeUnknown
         /\ error = NotImplemented(TypeUnknown[1])
         /\ lastInference[1].calls = <<>>
         /\ TypeUnknown \notin DOMAIN results.inference_times
         /\ \A m \in DOMAIN results.metric_scores : METRICS[m] # TypeUnknown
         /\ Len(passes) = 1 =>
              featuresCalls = 0 /\ modelCalls = 0 /\ DOMAIN results.metric_scores = {}
C5_Witness ==
    /\ pc = "failed"
    /\ error.type = "NotImplementedError"
    /\ featuresCalls = 1
    /\ "parc" \in DOMAIN results.metric_scores

ProviderCalls == <<"get_model_without_head", "get_processor", "get_features">>

\* C6: perform_inference dispatches on its argument: 'features' loads the
\* headless model and the processor and runs feature extraction on the dataset,
\* returning the feature matrix; 'model' returns the headless model without
\* running feature extraction; null returns no artifact and calls no provider;
\* any other value raises the not-supported error and returns nothing; every
\* non-failing call returns a pair (artifact, elapsed_time).
C6_PerformInferenceDispatch ==
    lastInference # None =>
        LET o == lastInference[1]
        IN  /\ o.err = NoError => Len(o.returned) = 2 /\ o.returned[1] = o.artifact
            /\ o.err # NoError => o.returned = <<>>
            /\ o.type = TypeFeatures =>
                 /\ IsPrefix(o.calls, ProviderCalls)
                 /\ o.err = NoError =>
                      /\ o.calls = ProviderCalls
                      /\ o.artifact = [kind |-> "features", of |-> <<dataset>>]
            /\ o.type = TypeModel =>
                 /\ o.calls = <<"get_model_without_head">>
                 /\ o.err = NoError => o.artifact = [kind |-> "model", of |-> <<>>]
            /\ o.type = None =>
                 o.err = NoError /\ o.artifact = NoArtifact /\ o.calls = <<>>
            /\ o.type \notin {TypeFeatures, TypeModel, None} =>
                 /\ o.err = NotImplemented(o.type[1])
                 /\ o.calls = <<>>
C6_Witness ==
    /\ lastInference # None
    /\ lastInference[1].type = TypeModel
    /\ lastInference[1].err = NoError
    /\ Len(passes) = 3
    /\ passes[1] = TypeFeatures
    /\ passes[2] = None

\* C7: once run_experiment has returned, the results record holds one
\* metric_scores entry per configured metric name, each with a score and a
\* time, the score being what fit_metric returned for that metric, and one
\* inference_times entry per distinct declared inference type; entries are
\* only added, and the configuration copy in the record is never rewritten.
C7_ResultsRecordComplete ==
    /\ DOMAIN results.metric_scores \subseteq Range(config.metrics)
    /\ DOMAIN results.inference_times \subseteq ConfiguredTypes
    /\ DOMAIN scored \subseteq DOMAIN results.metric_scores
    /\ \A m \in DOMAIN scored :
         /\ DOMAIN results.metric_scores[m] = {"score", "time"}
         /\ results.metric_scores[m]["score"] = scored[m]
         /\ scored[m] = fit_metric(m, IF METRICS[m] = TypeFeatures
                                      THEN [kind |-> "features", of |-> <<dataset>>]
                                      ELSE IF METRICS[m] = TypeModel
                                      THEN [kind |-> "model", of |-> <<>>]
                                      ELSE NoArtifact, labels)
         /\ results.metric_scores[m]["time"] \in Nat
    /\ results # NoResults => results.config = Some(config)
    /\ RunExperimentReturned =>
         /\ DOMAIN results.metric_scores = Range(config.metrics)
         /\ DOMAIN scored = Range(config.metrics)
         /\ DOMAIN results.inference_times = ConfiguredTypes
         /\ \A t \in ConfiguredTypes : results.inference_times[t] \in Nat
C7_Witness ==
    /\ pc = "ran"
    /\ config.metrics = <<"parc", "prior", "parc">>
    /\ DOMAIN results.metric_scores = {"parc", "prior"}
    /\ DOMAIN results.inference_times = {TypeFeatures, None}

ExpectedStages(cfg) ==
    (IF cfg.use_wandb THEN <<"wandb_init">> ELSE <<>>)
    \o <<"load", "split", "n_samples", "metrics_samples", "run">>
    \o (IF cfg.local_save THEN <<"save">> ELSE <<>>)
    \o (IF cfg.use_wandb THEN <<"log">> ELSE <<>>)
StagesInOrder ==
    /\ IsPrefix(stageLog, ExpectedStages(config))
    /\ pc = "failed" /\ FailedStage # "init_wandb" =>
         stageLog # <<>> /\ FailedStage = stageLog[Len(stageLog)]
    /\ pc = "completed" => stageLog = ExpectedStages(config)
    /\ Len(passes) > 0 \/ lastInference # None =>
         /\ IsPrefix(<<"load", "split", "n_samples", "metrics_samples", "run">>,
                     SelectSeq(stageLog, LAMBDA x : x # "wandb_init"))
         /\ Len(dropCalls) >= 2
         /\ results.config = Some(config)
WrittenOnlyAtEnd ==
    /\ fileWrites <= 1
    /\ fileWrites = 1 <=> fileState = "written"
    /\ fileState # "absent" =>
         /\ config.local_save
         /\ Range(passes) = ConfiguredTypes
         /\ DOMAIN scored = Range(config.metrics)
         /\ pc \in {"saved", "completed", "failed"}
\* C8 (as stated): the stages of a run start in the order tracking-session
\* start, load, split, n_samples subset, metrics_samples subset, inference and
\* scoring, persistence, tracking log; none starts before the earlier ones
\* succeeded; the results file is written at most once, only after
\* run_experiment has returned and only when local saving is enabled; and a
\* failure in any stage leaves no results file written.
C8_StagesInOrderNoFileOnFailure ==
    /\ StagesInOrder
    /\ WrittenOnlyAtEnd
    /\ pc = "failed" => fileState = "absent"

\* C8 (amended): as stated, except that only a failure in a stage before
\* results persistence leaves no results file: a failure while the file is
\* being written, or of the tracking log that follows it, finds the file
\* already created.
C8_StagesInOrderNoFileBeforeSave ==
    /\ StagesInOrder
    /\ WrittenOnlyAtEnd
    /\ pc = "failed" /\ FailedStage \notin {"save", "log"} => fileState = "absent"
    /\ FailedStage = "log" /\ config.local_save => fileState = "written"
C8_Witness ==
    /\ pc = "completed"
    /\ config.use_wandb
    /\ config.local_save
    /\ fileState = "written"
    /\ Len(wandbLogs) = 1
    /\ Len(stageLog) = 8

NothingStarted(c) ==
    /\ c.after.run = c.before.run
    /\ c.after.logins = c.before.logins
    /\ c.after.inits = c.before.inits
\* C9: at most one tracking session is ever active: init_wandb called (with
\* use_wandb true) while a run is already initialised raises the
\* already-initialised error without logging in or initialising a session, and
\* init_wandb called with use_wandb false emits the warning and returns,
\* starting no session.
C9_SingleTrackingSession ==
    /\ wandbRun <= 1
    /\ lastInit # None =>
         LET c == lastInit[1]
         IN  /\ config.use_wandb /\ c.before.run > 0 =>
                  /\ c.after.err = AlreadyInitialised
                  /\ c.after.warn = c.before.warn
                  /\ NothingStarted(c)
             /\ ~config.use_wandb =>
                  /\ c.after.err = NoError
                  /\ c.after.warn = Append(c.before.warn, IgnoredWandbWarning)
                  /\ NothingStarted(c)
             /\ c.after.run > c.before.run =>
                  c.before.run = 0 /\ Len(c.after.inits) = Len(c.before.inits) + 1
C9_Witness ==
    /\ lastInit # None
    /\ config.use_wandb
    /\ lastInit[1].before.run = 1
    /\ lastInit[1].before.logins = 1
    /\ pc = "failed"
    /\ error = AlreadyInitialised
    /\ wandbRun = 1

DefaultJobType == <<"m", "i", "s", "c">>

\* C10: with use_wandb true, no run active and no job_type in wandb_args,
\* init_wandb passes job_type 'misc' to wandb.init and initialises the run;
\* name defaults to run_name, and values given in wandb_args pass through.
C10_JobTypeDefaultsToMisc ==
    lastInit # None =>
        LET c == lastInit[1]
        IN  /\ config.use_wandb
            /\ c.before.run = 0
            /\ c.after.ext = "ok"
            /\ "job_type" \notin DOMAIN config.wandb_args
            => /\ c.after.err = NoError
               /\ c.after.run = 1
               /\ Len(c.after.inits) = Len(c.before.inits) + 1
               /\ c.after.inits[Len(c.after.inits)]["job_type"] = DefaultJobType

\* C11: when wandb_args gives no group, init_wandb passes to wandb.init the
\* group made of the dataset name joined by '_' with config_gen_dtime when
\* that is set, and the dataset name alone when it is not.
C11_GroupDefaultsToDatasetAndDtime ==
    lastInit # None =>
        LET c == lastInit[1]
        IN  /\ Len(c.after.inits) = Len(c.before.inits) + 1
            /\ "group" \notin DOMAIN config.wandb_args
            => c.after.inits[Len(c.after.inits)]["group"] =
                   create_wandb_names(config.dataset_name, config.config_gen_dtime)

\* run_experiment as a function of the order q in which the inference types
\* are processed: the score stored for each metric name.
RECURSIVE ScoresUnder(_, _, _, _, _)
ScoresUnder(q, mi, md, ds, lbls) ==
    IF q = <<>> THEN EmptyDict
    ELSE LET o == perform_inference(Head(q), ds, "ok")
             mi2 == NextModelInput(mi, o)
             group == [m \in Range(TestMetrics(md, Head(q))) |->
                          compute_metric_score(m, mi2, lbls, "ok").returned[1]]
             rest == ScoresUnder(Tail(q), mi2, md, ds, lbls)
         IN  [m \in DOMAIN group \cup DOMAIN rest |->
                 IF m \in DOMAIN rest THEN rest[m] ELSE group[m]]
StoredScores == [m \in DOMAIN results.metric_scores |-> results.metric_scores[m]["score"]]
ArtifactKind(t) == IF t = TypeFeatures THEN "features"
                   ELSE IF t = TypeModel THEN "model" ELSE "None"

\* C15: the results of run_experiment do not depend on the order in which the
\* inference types are processed: whatever order the run used, processing the
\* same types in any other order stores the same score under every metric
\* name, each metric having been given the artifact of its own declared type
\* and the same label vector.
C15_OrderInsensitive ==
    RunExperimentReturned =>
        /\ \A q \in Orderings(ConfiguredTypes) :
               ScoresUnder(q, NoArtifact, metrics, dataset, labels) = StoredScores
        /\ \A m \in DOMAIN StoredScores :
               /\ StoredScores[m].model_input.kind = ArtifactKind(METRICS[m])
               /\ StoredScores[m].dataset_input = labels
C15_Witness ==
    /\ pc = "ran"
    /\ inference_types = <<TypeFeatures, None, TypeModel>>
    /\ DOMAIN results.metric_scores = {"parc", "prior", "n_pars"}

TriIndex(i, j, n) == (i - 1) * n - (i * (i - 1)) \div 2 + (j - i)

\* C12: for every square matrix of size n, _lower_tri_arr returns exactly the
\* n(n-1)/2 entries a[i][j] with i < j, each at a position fixed by (i, j, n)
\* alone, so that a second call on the same matrix returns the same sequence;
\* for the 5x5 matrix filled 1..25 row-major the returned values sum to the
\* closed form of test_lower_tri.
C12_UpperTriangleExtraction ==
    (call.fn = "_lower_tri_arr" /\ ret # None) =>
        LET a == call.arr
            n == Len(a)
            r == ret[1].returned[1]
        IN  /\ ret[1].err = NoError
            /\ Len(r) = (n * (n - 1)) \div 2
            /\ \A i, j \in 1..n : i < j => r[TriIndex(i, j, n)] = a[i][j]
            /\ _lower_tri_arr(a) = r
            /\ a = RowMajor(TestN) => SumSeq(r) = ClosedFormSum(TestN)
C12_Witness ==
    /\ call.fn = "_lower_tri_arr"
    /\ ret # None
    /\ call.arr = RowMajor(TestN)
    /\ SumSeq(ret[1].returned[1]) = ClosedFormSum(TestN)

ExceedsRank(F, f) == f # None /\ f[1] > Min(F.n, F.d)

\* C13: _feature_reduce of an n x d matrix F with target dimension f has
\* exactly three outcomes: f unset returns F unchanged; f > min(n, d) fails
\* with the invalid-dimension error and returns nothing; any other f returns
\* a matrix of shape (n, f). PARC's fit_metric does not catch the error: with
\* such an f it fails with the same error.
C13_FeatureReduceOutcomes ==
    /\ (call.fn = "_feature_reduce" /\ ret # None) =>
           LET F == call.features
               f == call.f
               o == ret[1]
           IN  /\ f = None => o = Returned(F)
               /\ ExceedsRank(F, f) => o = Raised(InvalidDimension)
               /\ (f # None /\ ~ExceedsRank(F, f)) =>
                      /\ o.err = NoError
                      /\ Shape(o.returned[1]) = <<F.n, f[1]>>
    /\ (call.fn = "fit_metric" /\ ret # None) =>
           /\ ExceedsRank(call.features, call.metric.feat_red_dim) =>
                  ret[1] = Raised(InvalidDimension)
           /\ ~ExceedsRank(call.features, call.metric.feat_red_dim) =>
                  ret[1].err = NoError
C13_Witness ==
    /\ call.fn = "fit_metric"
    /\ ret # None
    /\ ExceedsRank(call.features, call.metric.feat_red_dim)
    /\ ret[1].err = InvalidDimension

ListOf(v) == IF v.kind = "list" THEN v.items ELSE <<v>>
SweepLists == [p \in 1..Len(call.sweep_args) |-> ListOf(top.attrs[call.sweep_args[p][1]])]
SweptKeys == {call.sweep_args[p][2] : p \in 1..Len(call.sweep_args)}
RECURSIVE ProductOfLengths(_)
ProductOfLengths(lists) ==
    IF lists = <<>> THEN 1 ELSE Len(Head(lists)) * ProductOfLengths(Tail(lists))
Combinations(keys, sweep_args, ranges) ==
    {g \in [keys -> UNION Range(ranges)] :
        \A p \in 1..Len(sweep_args) : g[sweep_args[p][2]] \in ranges[p]}
DuplicateFree(q) == Cardinality(Range(q)) = Len(q)
SweepReturned == call.fn = "_gen_sweep_dicts" /\ ret # None
SweepContract ==
    /\ ret[1].err = NoError
    /\ LET R == ret[1].returned[1]
           lists == SweepLists
           keys == SweptKeys
           ranges == [p \in 1..Len(lists) |-> Range(lists[p])]
       IN  /\ Len(R) = ProductOfLengths(lists)
           /\ {[x \in keys |-> R[k][x]] : k \in 1..Len(R)} =
                  Combinations(keys, call.sweep_args, ranges)
           /\ (\A p \in 1..Len(lists) : DuplicateFree(lists[p])) => DuplicateFree(R)
           /\ \A k \in 1..Len(R) : \A a \in Range(call.keep_args) : R[k][a] = top.attrs[a]
           /\ top.num_configs = Len(R)
           /\ Occurrences(warnings, SlurmWarning) = (IF Len(R) > SlurmLimit THEN 1 ELSE 0)
WellFormedSweep ==
    /\ call.sweep_args # <<>>
    /\ \A p, q \in 1..Len(call.sweep_args) :
           call.sweep_args[p][2] = call.sweep_args[q][2] => p = q
    /\ SweptKeys \cap Range(call.keep_args) = {}

\* C16: _gen_sweep_dicts returns one dictionary for every combination in the
\* Cartesian product of the swept arguments' value lists (a non-list value
\* counting as a single-value list): the number returned is the product of
\* the list lengths, no combination appears twice for duplicate-free lists,
\* every dictionary carries each keep_arg with the top-level value,
\* num_configs is the number returned, and the Slurm array warning is emitted
\* exactly when that number exceeds 1001.
C16_SweepIsCartesianProduct == SweepReturned => SweepContract

\* C16 (amended): the same, for a sweep that names at least one argument,
\* maps no two arguments to the same config argument and keeps no argument
\* under the name of a swept one.
C16_WellFormedSweepIsCartesianProduct ==
    (SweepReturned /\ WellFormedSweep) => SweepContract
C16_Witness ==
    /\ SweepReturned
    /\ WellFormedSweep
    /\ Len(call.sweep_args) > 1
    /\ top.num_configs = SlurmLimit + 1
    /\ Occurrences(warnings, SlurmWarning) = 1
====
